---------------------------- MODULE Spec2Model ----------------------------
(***************************************************************************)
(* Cost estimation Lambda: src/CostEstimationLambda.py (the "full"         *)
(* variant, with storage and database costs) and                           *)
(* src/EC2CostEstimation-Lambda.py (the "ec2" variant, compute cost only). *)
(*                                                                         *)
(* Python strings that the code searches with regular expressions are      *)
(* sequences of one-character strings.  Money is an integer number of      *)
(* cents; a product of a size and a per-GB rate is an integer number of    *)
(* mills (1/1000 USD) before round(_, 2) is applied.                       *)
(***************************************************************************)
EXTENDS Integers, Sequences, FiniteSets, TLC

VARIABLES
    variant,            \* "full" | "ec2": which of the two source files runs
    pc,                 \* position in the running function
    ec2_instances,      \* the dict returned by fetch_ec2_instance_types, in insertion order
    requirements,       \* the list returned by fetch_requirements_from_s3
    filtered_data,      \* extract_cpu_ram's result
    matched_instances,  \* find_best_match's result list (mutated by the pricing loop)
    req_idx,            \* find_best_match: index of req in filtered_data
    cat_idx,            \* find_best_match: position of the inner loop in ec2_instances
    best_match,         \* find_best_match: the running best
    filtered_from,      \* history: index in requirements of each filtered_data entry
    matched_from,       \* history: index in filtered_data of each matched_instances entry
    price_idx,          \* lambda_handler: position of the pricing loop
    statusCode,         \* lambda_handler's returned statusCode, 0 while running
    catalog_failed,     \* history: describe_instance_types raised
    price_calls,        \* history: number of get_instance_price calls
    unavailable,        \* history: indices whose price lookup returned None
    store_calls,        \* history: number of store_results_in_s3_csv calls
    store_ok,           \* history: the last store_results_in_s3_csv result
    report,             \* the rows written to S3
    storage_str,        \* calculate_storage_cost / calculate_database_cost argument
    database,           \* calculate_database_cost argument
    storage_cost,       \* calculate_storage_cost result
    database_cost       \* calculate_database_cost result

vars == <<variant, pc, ec2_instances, requirements, filtered_data, matched_instances,
          req_idx, cat_idx, best_match, filtered_from, matched_from, price_idx,
          statusCode, catalog_failed, price_calls, unavailable, store_calls, store_ok,
          report, storage_str, database, storage_cost, database_cost>>

matchVars == <<req_idx, cat_idx, best_match>>
handlerVars == <<price_idx, statusCode, catalog_failed, price_calls, unavailable,
                 store_calls, store_ok, report>>
costVars == <<storage_str, database, storage_cost, database_cost>>

-----------------------------------------------------------------------------
(* Bounds *)

MaxReqs == 2        \* longest requirements list
MaxCat == 3         \* most instance types in one describe_instance_types response
MaxComponents == 2  \* most '+'-separated components in a storage descriptor

-----------------------------------------------------------------------------
(* Python values *)

\* Python's None (best_match, a failed re.search)
None == [none |-> TRUE]

\* a float holding an amount of money, in cents
Float(c) == [type |-> "float", cents |-> c]

\* a str value stored where a float is expected
Str(t) == [type |-> "str", text |-> t]

Min(S) == CHOOSE x \in S : \A y \in S : x <= y

-----------------------------------------------------------------------------
(* Characters and the re module *)

Digit == {"0", "1", "2", "3", "4", "5", "6", "7", "8", "9"}

\* \s
Whitespace == {" ", "\t", "\n"}

DigitVal(c) ==
    CASE c = "0" -> 0 [] c = "1" -> 1 [] c = "2" -> 2 [] c = "3" -> 3 [] c = "4" -> 4
      [] c = "5" -> 5 [] c = "6" -> 6 [] c = "7" -> 7 [] c = "8" -> 8 [] c = "9" -> 9

\* int(m.group(1)) of a digit string
RECURSIVE int(_)
int(ds) ==
    IF ds = <<>> THEN 0
    ELSE int(SubSeq(ds, 1, Len(ds) - 1)) * 10 + DigitVal(ds[Len(ds)])

\* str.upper() on one character (the letters the patterns below mention)
UpperChar(c) ==
    CASE c = "g" -> "G" [] c = "b" -> "B" [] c = "t" -> "T" [] c = "s" -> "S"
      [] c = "d" -> "D" [] c = "h" -> "H" [] c = "n" -> "N" [] c = "v" -> "V"
      [] c = "m" -> "M" [] c = "e" -> "E"
      [] OTHER -> c

upper(s) == [i \in 1..Len(s) |-> UpperChar(s[i])]

\* the literal lit occurs in s at position i (case-sensitive)
LitAt(s, i, lit) ==
    /\ i >= 1
    /\ i + Len(lit) - 1 <= Len(s)
    /\ SubSeq(s, i, i + Len(lit) - 1) = lit

\* the literal lit occurs in s at position i under re.IGNORECASE
LitAtI(s, i, lit) ==
    /\ i >= 1
    /\ i + Len(lit) - 1 <= Len(s)
    /\ upper(SubSeq(s, i, i + Len(lit) - 1)) = upper(lit)

\* last position of the maximal run of characters of class C starting at i
\* (i - 1 when s[i] is not in C): what a greedy C+ consumes
RunEnd(s, i, C) ==
    LET stops == {j \in i..Len(s) : s[j] \notin C}
    IN  IF stops = {} THEN Len(s) ELSE Min(stops) - 1

\* first position where pattern P(s, i) matches: re.search scans left to right
Leftmost(s, P(_, _)) ==
    LET hits == {i \in 1..Len(s) : P(s, i)}
    IN  IF hits = {} THEN 0 ELSE Min(hits)

\* (\d+)\s+Cores matches at i
CoresAt(s, i) ==
    LET j == RunEnd(s, i, Digit)
        k == RunEnd(s, j + 1, Whitespace)
    IN  /\ j >= i
        /\ k >= j + 1
        /\ LitAt(s, k + 1, <<"C", "o", "r", "e", "s">>)

\* re.search(r'(\d+)\s+Cores', s): the groups of the match, or None
search_cores(s) ==
    LET i == Leftmost(s, CoresAt)
    IN  IF i = 0 THEN None ELSE [group1 |-> SubSeq(s, i, RunEnd(s, i, Digit))]

\* (\d+)\s*GB: whitespace allowed between the digits and GB
GBAt_Loose(s, i) ==
    LET j == RunEnd(s, i, Digit)
    IN  j >= i /\ LitAt(s, RunEnd(s, j + 1, Whitespace) + 1, <<"G", "B">>)

\* (\d+)GB matches at i
GBAt(s, i) ==
    LET j == RunEnd(s, i, Digit)
    IN  j >= i /\ LitAt(s, j + 1, <<"G", "B">>)

\* re.search(r'(\d+)GB', s)
search_gb(s) ==
    LET i == Leftmost(s, GBAt)
    IN  IF i = 0 THEN None ELSE [group1 |-> SubSeq(s, i, RunEnd(s, i, Digit))]

-----------------------------------------------------------------------------
(* Inputs: what the collaborators (EC2, S3, Pricing) can hand to the code *)

\* entries of response['InstanceTypes'] of ec2_client.describe_instance_types()
InstanceTypePool ==
    { [InstanceType |-> "t2.small",    DefaultVCpus |-> 1, SizeInMiB |-> 2048],
      [InstanceType |-> "t3.medium",   DefaultVCpus |-> 2, SizeInMiB |-> 4096],
      [InstanceType |-> "m5.large",    DefaultVCpus |-> 2, SizeInMiB |-> 8192],
      [InstanceType |-> "x2gd.medium", DefaultVCpus |-> 1, SizeInMiB |-> 16384] }

\* sequences without repetition of at most n elements of S
InjSeqs(S, n) ==
    UNION { { f \in [1..k -> S] : \A i, j \in 1..k : f[i] = f[j] => i = j } : k \in 0..n }

\* what ec2_client.describe_instance_types() does: a response, or an exception
CatalogResponses ==
    { [raises |-> FALSE, InstanceTypes |-> c] : c \in InjSeqs(InstanceTypePool, MaxCat) }
        \cup { [raises |-> TRUE] }

\* one row of the spreadsheet, as df.to_dict(orient="records") gives it
Row(name, ip, cpu, ram, storage, db) ==
    ("Server Name" :> name) @@ ("IP Address" :> ip) @@ ("CPU" :> cpu) @@ ("RAM" :> ram)
        @@ ("Storage" :> storage) @@ ("Database" :> db)

RowPool ==
    { Row("web-1", "10.0.0.1", <<"2", " ", "C", "o", "r", "e", "s">>, <<"4", "G", "B">>,
          <<"1", "0", "0", "G", "B", " ", "S", "S", "D">>, "None"),
      Row("db-1", "10.0.0.2", <<"X", "e", "o", "n", " ", "1", " ", "\t", "C", "o", "r", "e", "s">>, <<"D", "D", "R", "4", " ", "3", "G", "B">>,
          <<"5", "0", "0", "G", "B", " ", "S", "S", "D", " ", "+", " ", "1", "T", "B", " ", "H", "D", "D">>, "MySQL"),
      Row("app-1", "10.0.0.3", <<"f", "o", "u", "r", " ", "c", "o", "r", "e", "s">>, <<"1", "6", "G", "B">>,
          <<"2", "0", "0", "G", "B", " ", "S", "S", "D">>, "Redis"),
      Row("app-2", "10.0.0.4", <<"2", " ", "C", "o", "r", "e", "s">>, <<"8", " ", "G", "B">>,
          <<"1", "T", "B", " ", "N", "V", "M", "e">>, "None"),
      Row("big-1", "10.0.0.5", <<"1", "6", " ", "C", "o", "r", "e", "s">>, <<"6", "4", "G", "B">>,
          <<"2", "T", "B", " ", "H", "D", "D">>, "Oracle Database") }

\* the spreadsheets S3 can hold: lists of at most MaxReqs rows
RequirementLists == UNION { [1..k -> RowPool] : k \in 0..MaxReqs }

-----------------------------------------------------------------------------
(* fetch_ec2_instance_types *)

\* instance_data[key] = value on an insertion-ordered dict held as a sequence of items
DictSet(d, key, value) ==
    IF \E i \in 1..Len(d) : d[i].name = key
    THEN [i \in 1..Len(d) |-> IF d[i].name = key THEN [name |-> key] @@ value ELSE d[i]]
    ELSE Append(d, [name |-> key] @@ value)

\* the value stored for one instance; SizeInMiB // 1024
CatalogEntry(instance) ==
    [vCPUs |-> instance.DefaultVCpus, MemoryMiB |-> instance.SizeInMiB \div 1024]

RECURSIVE FetchLoop(_, _)
FetchLoop(instances, instance_data) ==
    IF instances = <<>> THEN instance_data
    ELSE FetchLoop(Tail(instances),
                   DictSet(instance_data, Head(instances).InstanceType,
                           CatalogEntry(Head(instances))))

\* an exception inside the try block gives {}
fetch_ec2_instance_types(response) ==
    IF response.raises THEN <<>> ELSE FetchLoop(response.InstanceTypes, <<>>)

-----------------------------------------------------------------------------
(* extract_cpu_ram *)

\* `if cpu_match and ram_match`
BothMatch(req) == search_cores(req["CPU"]) # None /\ search_gb(req["RAM"]) # None

\* the dict appended for a row; the ec2 variant drops Storage and Database
FilteredRecord(v, req) ==
    LET base == ("Server Name" :> req["Server Name"]) @@ ("IP Address" :> req["IP Address"])
                 @@ ("CPU" :> int(search_cores(req["CPU"]).group1))
                 @@ ("RAM" :> int(search_gb(req["RAM"]).group1))
    IN  IF v = "full"
        THEN base @@ ("Storage" :> req["Storage"]) @@ ("Database" :> req["Database"])
        ELSE base

\* the for loop from row k on; acc.out is filtered_requirements, acc.from the rows kept
RECURSIVE ExtractLoop(_, _, _, _)
ExtractLoop(v, reqs, k, acc) ==
    IF k > Len(reqs) THEN acc
    ELSE ExtractLoop(v, reqs, k + 1,
            IF BothMatch(reqs[k])
            THEN [out |-> Append(acc.out, FilteredRecord(v, reqs[k])),
                  from |-> Append(acc.from, k)]
            ELSE acc)

extract_cpu_ram(v, reqs) == ExtractLoop(v, reqs, 1, [out |-> <<>>, from |-> <<>>])

-----------------------------------------------------------------------------
(* find_best_match *)

\* the memory comparison left out
Sufficient_CpuOnly(instance, req) == instance.vCPUs >= req["CPU"]

\* instance["vCPUs"] >= req["CPU"] and instance["MemoryMiB"] >= req["RAM"]
Sufficient(instance, req) ==
    instance.vCPUs >= req["CPU"] /\ instance.MemoryMiB >= req["RAM"]

\* <= in place of < on vCPUs
Improves_OrEqual(instance, best) ==
    \/ best = None
    \/ instance.vCPUs <= best.vCPUs
    \/ instance.MemoryMiB < best.MemoryMiB

\* best_match is None or (fewer vCPUs or less memory than best_match)
Improves(instance, best) ==
    \/ best = None
    \/ instance.vCPUs < best.vCPUs
    \/ instance.MemoryMiB < best.MemoryMiB

\* one iteration of the inner loop over ec2_instances.items()
ScanUpdate(best, item, req) ==
    IF Sufficient(item, req) /\ Improves(item, best)
    THEN [InstanceType |-> item.name, vCPUs |-> item.vCPUs, MemoryMiB |-> item.MemoryMiB]
    ELSE best

\* CPU and RAM taken from the requirement instead of the selected instance
MatchedRecord_ReqCapacity(v, req, best) ==
    ("Server Name" :> req["Server Name"]) @@ ("IP Address" :> req["IP Address"])
        @@ ("CPU" :> req["CPU"]) @@ ("RAM" :> req["RAM"])
        @@ ("InstanceType" :> best.InstanceType)
        @@ (IF v = "full"
            THEN ("Storage" :> req["Storage"]) @@ ("Database" :> req["Database"])
            ELSE ("vCPUs" :> best.vCPUs) @@ ("MemoryMiB" :> best.MemoryMiB))

\* the dict appended to matched_instances
MatchedRecord(v, req, best) ==
    IF v = "full"
    THEN ("Server Name" :> req["Server Name"]) @@ ("IP Address" :> req["IP Address"])
            @@ ("CPU" :> best.vCPUs) @@ ("RAM" :> best.MemoryMiB)
            @@ ("InstanceType" :> best.InstanceType)
            @@ ("Storage" :> req["Storage"]) @@ ("Database" :> req["Database"])
    ELSE ("Server Name" :> req["Server Name"]) @@ ("IP Address" :> req["IP Address"])
            @@ ("InstanceType" :> best.InstanceType)
            @@ ("vCPUs" :> best.vCPUs) @@ ("MemoryMiB" :> best.MemoryMiB)

\* `if best_match:` appends; acc.out is matched_instances, acc.from the requirements matched
AppendMatch(v, acc, req, k, best) ==
    IF best # None
    THEN [out |-> Append(acc.out, MatchedRecord(v, req, best)), from |-> Append(acc.from, k)]
    ELSE acc

\* the inner loop from catalog position j on
RECURSIVE ScanFrom(_, _, _, _)
ScanFrom(best, ec2, j, req) ==
    IF j > Len(ec2) THEN best
    ELSE ScanFrom(ScanUpdate(best, ec2[j], req), ec2, j + 1, req)

\* the outer loop from requirement k on
RECURSIVE MatchLoop(_, _, _, _, _)
MatchLoop(v, filtered, ec2, k, acc) ==
    IF k > Len(filtered) THEN acc
    ELSE MatchLoop(v, filtered, ec2, k + 1,
                   AppendMatch(v, acc, filtered[k], k, ScanFrom(None, ec2, 1, filtered[k])))

find_best_match(v, filtered, ec2) ==
    MatchLoop(v, filtered, ec2, 1, [out |-> <<>>, from |-> <<>>])

-----------------------------------------------------------------------------
(* calculate_storage_cost *)

Max(S) == CHOOSE x \in S : \A y \in S : x >= y

\* s.split(sep) for a one-character separator
RECURSIVE split(_, _)
split(s, sep) ==
    LET hits == {i \in 1..Len(s) : s[i] = sep}
    IN  IF hits = {} THEN <<s>>
        ELSE <<SubSeq(s, 1, Min(hits) - 1)>> \o split(SubSeq(s, Min(hits) + 1, Len(s)), sep)

\* s.strip()
strip(s) ==
    LET keep == {i \in 1..Len(s) : s[i] \notin Whitespace}
    IN  IF keep = {} THEN <<>> ELSE SubSeq(s, Min(keep), Max(keep))

\* (\d+)(TB|GB) under re.IGNORECASE matches at i
SizeAt(s, i) ==
    LET j == RunEnd(s, i, Digit)
    IN  j >= i /\ (LitAtI(s, j + 1, <<"T", "B">>) \/ LitAtI(s, j + 1, <<"G", "B">>))

\* re.search(r'(\d+)(TB|GB)', s, re.IGNORECASE)
search_size(s) ==
    LET i == Leftmost(s, SizeAt)
        j == RunEnd(s, i, Digit)
    IN  IF i = 0 THEN None
        ELSE [group1 |-> SubSeq(s, i, j), group2 |-> SubSeq(s, j + 1, j + 2)]

\* (SSD|HDD|NVMe) under re.IGNORECASE matches at i
TypeAt(s, i) ==
    \/ LitAtI(s, i, <<"S", "S", "D">>)
    \/ LitAtI(s, i, <<"H", "D", "D">>)
    \/ LitAtI(s, i, <<"N", "V", "M", "e">>)

\* re.search(r'(SSD|HDD|NVMe)', s, re.IGNORECASE)
search_type(s) ==
    LET i == Leftmost(s, TypeAt)
    IN  IF i = 0 THEN None
        ELSE [group1 |-> SubSeq(s, i, IF LitAtI(s, i, <<"N", "V", "M", "e">>)
                                      THEN i + 3 ELSE i + 2)]

\* storage_cost_per_gb, in mills (1/1000 USD) per GB: 0.08, 0.045, 0.10
RateSSD == 80
RateHDD == 45
RateNVME == 100

\* the dict storage_cost_per_gb, keyed by the upper-cased type
storage_cost_per_gb ==
    (<<"S", "S", "D">> :> RateSSD) @@ (<<"H", "D", "D">> :> RateHDD)
        @@ (<<"N", "V", "M", "E">> :> RateNVME)

\* size_value * 1024 when the unit is TB
GBPerTB == 1024

\* a terabyte taken as 1000 GB
SizeGB_Decimal(size_match) ==
    IF upper(size_match.group2) = <<"T", "B">>
    THEN int(size_match.group1) * 1000
    ELSE int(size_match.group1)

\* size_gb = size_value * 1024 if size_unit == "TB" else size_value
SizeGB(size_match) ==
    IF upper(size_match.group2) = <<"T", "B">>
    THEN int(size_match.group1) * GBPerTB
    ELSE int(size_match.group1)

\* what one pass of the loop body adds to total_cost, in mills
ComponentCost(item) ==
    LET storage == strip(item)
        size_match == search_size(storage)
        type_match == search_type(storage)
    IN  IF size_match = None \/ type_match = None THEN 0
        ELSE LET storage_type == upper(strip(type_match.group1))
             IN  IF storage_type \in DOMAIN storage_cost_per_gb
                 THEN SizeGB(size_match) * storage_cost_per_gb[storage_type]
                 ELSE 0

RECURSIVE StorageLoop(_, _)
StorageLoop(storage_items, total_cost) ==
    IF storage_items = <<>> THEN total_cost
    ELSE StorageLoop(Tail(storage_items), total_cost + ComponentCost(Head(storage_items)))

\* round(x, 2) of a float worth `mills` thousandths, in cents.  An exact half cent is not
\* representable in binary, so the float lies just under or just over it and round()
\* goes either way (round(0.045, 2) = 0.04, round(3 * 0.045, 2) = 0.14): `up` says which.
round2(mills, up) ==
    IF mills % 10 = 5
    THEN (mills \div 10) + (IF up THEN 1 ELSE 0)
    ELSE (mills + 5) \div 10

calculate_storage_cost(s, up) ==
    Float(round2(StorageLoop(split(s, "+"), 0), up))

-----------------------------------------------------------------------------
(* calculate_database_cost *)

\* database_cost_per_gb, in cents per GB: 0.10, 0.10, 0.20, 0.30, 0.15
RateMySQL == 10
RatePostgreSQL == 10
RateSQLServer == 20
RateOracle == 30
RateRedis == 15

database_cost_per_gb ==
    ("MySQL" :> RateMySQL) @@ ("PostgreSQL" :> RatePostgreSQL)
        @@ ("Microsoft SQL Server" :> RateSQLServer) @@ ("Oracle Database" :> RateOracle)
        @@ ("Redis" :> RateRedis)

\* the size summed over the '+'-separated components, as calculate_storage_cost sums
RECURSIVE SumSizes(_)
SumSizes(items) ==
    IF items = <<>> THEN 0
    ELSE (IF search_size(Head(items)) = None THEN 0 ELSE SizeGB(search_size(Head(items))))
            + SumSizes(Tail(items))

\* every component's size charged, not only the first
calculate_database_cost_AllComponents(db, s) ==
    IF db = "None" \/ db \notin DOMAIN database_cost_per_gb THEN Float(0)
    ELSE Float(SumSizes(split(s, "+")) * database_cost_per_gb[db])

\* size_gb * cost_per_gb is a whole number of cents, which round(_, 2) leaves alone
calculate_database_cost(db, s) ==
    IF db = "None" \/ db \notin DOMAIN database_cost_per_gb THEN Float(0)
    ELSE LET size_match == search_size(s)
         IN  IF size_match = None THEN Float(0)
             ELSE Float(SizeGB(size_match) * database_cost_per_gb[db])

-----------------------------------------------------------------------------
(* Inputs of the cost functions *)

\* '+'-separated components of a Storage cell
ComponentPool ==
    { <<"5", "0", "0", "G", "B", " ", "S", "S", "D">>,
      <<"1", "T", "B", " ", "H", "D", "D">>,
      <<"1", "0", "0", "g", "b", " ", "n", "v", "m", "e">>,
      <<"S", "S", "D", " ", "2", "0", "0", "G", "B">>,
      <<"1", "G", "B", " ", "H", "D", "D">>,
      <<"f", "a", "s", "t", " ", "d", "i", "s", "k">>,
      <<"2", "5", "0", " ", "G", "B", " ", "S", "S", "D">>,
      <<"3", "0", "0", "G", "B">> }

\* ' + '.join(components)
RECURSIVE Join(_)
Join(components) ==
    IF components = <<>> THEN <<>>
    ELSE IF Len(components) = 1 THEN components[1]
    ELSE components[1] \o <<" ", "+", " ">> \o Join(Tail(components))

\* Storage cells of at most MaxComponents components; the empty cell is among them
ComponentLists == UNION { [1..k -> ComponentPool] : k \in 0..MaxComponents }

\* Database cells
DatabasePool ==
    { "None", "MySQL", "Microsoft SQL Server", "Oracle Database", "Redis", "mysql", "MongoDB" }

-----------------------------------------------------------------------------
(* SpecMatch: extract_cpu_ram, then find_best_match one catalog entry at a time *)

InitMatch ==
    /\ variant \in {"full", "ec2"}
    /\ pc = "extract"
    /\ ec2_instances \in { fetch_ec2_instance_types(r) : r \in CatalogResponses }
    /\ requirements \in RequirementLists
    /\ filtered_data = <<>>
    /\ matched_instances = <<>>
    /\ filtered_from = <<>>
    /\ matched_from = <<>>
    /\ req_idx = 1
    /\ cat_idx = 1
    /\ best_match = None
    /\ price_idx = 1
    /\ statusCode = 0
    /\ catalog_failed = FALSE
    /\ price_calls = 0
    /\ unavailable = {}
    /\ store_calls = 0
    /\ store_ok = FALSE
    /\ report = <<>>
    /\ storage_str = <<>>
    /\ database = "None"
    /\ storage_cost = None
    /\ database_cost = None

\* filtered_data = extract_cpu_ram(requirements), then find_best_match is entered
Extract ==
    /\ pc = "extract"
    /\ LET r == extract_cpu_ram(variant, requirements)
       IN  /\ filtered_data' = r.out
           /\ filtered_from' = r.from
           /\ pc' = IF r.out = <<>> THEN "done" ELSE "scan"
    /\ UNCHANGED <<variant, ec2_instances, requirements, matched_instances, matched_from,
                   matchVars, handlerVars, costVars>>

\* one iteration of `for instance_name, instance in ec2_instances.items()`
ScanStep ==
    /\ pc = "scan"
    /\ cat_idx <= Len(ec2_instances)
    /\ best_match' = ScanUpdate(best_match, ec2_instances[cat_idx], filtered_data[req_idx])
    /\ cat_idx' = cat_idx + 1
    /\ UNCHANGED <<variant, pc, ec2_instances, requirements, filtered_data,
                   matched_instances, filtered_from, matched_from, req_idx,
                   handlerVars, costVars>>

\* the inner loop is over: append the record if there is one, go to the next requirement
EndScan ==
    /\ pc = "scan"
    /\ cat_idx > Len(ec2_instances)
    /\ LET acc == AppendMatch(variant, [out |-> matched_instances, from |-> matched_from],
                              filtered_data[req_idx], req_idx, best_match)
       IN  /\ matched_instances' = acc.out
           /\ matched_from' = acc.from
    /\ best_match' = None
    /\ cat_idx' = 1
    /\ req_idx' = req_idx + 1
    /\ pc' = IF req_idx + 1 > Len(filtered_data) THEN "done" ELSE "scan"
    /\ UNCHANGED <<variant, ec2_instances, requirements, filtered_data, filtered_from,
                   handlerVars, costVars>>

NextMatch == Extract \/ ScanStep \/ EndScan

SpecMatch == InitMatch /\ [][NextMatch]_vars

-----------------------------------------------------------------------------
(* Reading the state *)

\* the row of the spreadsheet that matched_instances[k] comes from
RowOf(k) == requirements[filtered_from[matched_from[k]]]

\* the parsed requirement that matched_instances[k] comes from
ReqOf(k) == filtered_data[matched_from[k]]

\* the selected instance type's capacities as matched_instances[k] records them
RecVCpus(k) ==
    IF variant = "full" THEN matched_instances[k]["CPU"] ELSE matched_instances[k]["vCPUs"]
RecMemory(k) ==
    IF variant = "full" THEN matched_instances[k]["RAM"] ELSE matched_instances[k]["MemoryMiB"]

\* catalog entries that satisfy a parsed requirement
Qualifying(req) ==
    { j \in 1..Len(ec2_instances) :
        ec2_instances[j].vCPUs >= req["CPU"] /\ ec2_instances[j].MemoryMiB >= req["RAM"] }

\* the catalog is exactly t2.small 1/2, t3.medium 2/4, m5.large 2/8, in some order
IsExampleCatalog(ec2) ==
    /\ Len(ec2) = 3
    /\ { ec2[j] : j \in 1..3 } =
         { [name |-> "t2.small", vCPUs |-> 1, MemoryMiB |-> 2],
           [name |-> "t3.medium", vCPUs |-> 2, MemoryMiB |-> 4],
           [name |-> "m5.large", vCPUs |-> 2, MemoryMiB |-> 8] }

-----------------------------------------------------------------------------
(* Claims about extract_cpu_ram and find_best_match, under SpecMatch *)

\* C1: whenever find_best_match holds a best match for a requirement, during the catalog
\* scan as well as in every record it has emitted, the selected instance type has
\* vCPUs >= the requirement's CPU and memory >= the requirement's RAM.
C1_Sufficiency ==
    /\ (pc = "scan" /\ best_match # None) =>
            /\ best_match.vCPUs >= filtered_data[req_idx]["CPU"]
            /\ best_match.MemoryMiB >= filtered_data[req_idx]["RAM"]
    /\ \A k \in 1..Len(matched_instances) :
            /\ RecVCpus(k) >= ReqOf(k)["CPU"]
            /\ RecMemory(k) >= ReqOf(k)["RAM"]

\* two records were emitted from a catalog that holds, for one, an entry with enough
\* vCPUs and too little memory and, for the other, one with enough memory and too few vCPUs
C1_Witness ==
    /\ pc = "done"
    /\ \E k, l \in 1..Len(matched_instances) :
          /\ \E j \in 1..Len(ec2_instances) :
                /\ ec2_instances[j].vCPUs >= ReqOf(k)["CPU"]
                /\ ec2_instances[j].MemoryMiB < ReqOf(k)["RAM"]
          /\ \E j \in 1..Len(ec2_instances) :
                /\ ec2_instances[j].vCPUs < ReqOf(l)["CPU"]
                /\ ec2_instances[j].MemoryMiB >= ReqOf(l)["RAM"]

\* C2 (as claimed): every emitted record's instance type is minimal among the qualifying
\* catalog entries: no qualifying entry has vCPUs <= and memory <= the selected one's
\* with one of the two strictly smaller.
C2_MinimalCapacity ==
    \A k \in 1..Len(matched_instances) :
        \A j \in Qualifying(ReqOf(k)) :
            ~ ( /\ ec2_instances[j].vCPUs <= RecVCpus(k)
                /\ ec2_instances[j].MemoryMiB <= RecMemory(k)
                /\ \/ ec2_instances[j].vCPUs < RecVCpus(k)
                   \/ ec2_instances[j].MemoryMiB < RecMemory(k) )

\* s contains digits, then whitespace, then the word Cores
HasCores(s) ==
    \E i, j, k \in 1..Len(s) :
        /\ i <= j /\ j < k
        /\ \A x \in i..j : s[x] \in Digit
        /\ \A x \in (j + 1)..k : s[x] \in Whitespace
        /\ LitAt(s, k + 1, <<"C", "o", "r", "e", "s">>)

\* s contains digits immediately followed by GB
HasGB(s) ==
    \E i, j \in 1..Len(s) :
        /\ i <= j
        /\ \A x \in i..j : s[x] \in Digit
        /\ LitAt(s, j + 1, <<"G", "B">>)

\* rows that are well formed and that some catalog entry satisfies
Eligible ==
    { i \in 1..Len(requirements) :
        /\ HasCores(requirements[i]["CPU"])
        /\ HasGB(requirements[i]["RAM"])
        /\ \E j \in 1..Len(ec2_instances) :
              /\ ec2_instances[j].vCPUs >= int(search_cores(requirements[i]["CPU"]).group1)
              /\ ec2_instances[j].MemoryMiB >= int(search_gb(requirements[i]["RAM"]).group1) }

\* C6: when find_best_match returns, its records are, in input order, exactly one per row
\* whose CPU holds '<digits> Cores', whose RAM holds '<digits>GB' and which some catalog
\* entry satisfies; every other row is left out and the rest are unaffected.
C6_ExactlyEligibleInOrder ==
    pc = "done" =>
        LET origin == [k \in 1..Len(matched_instances) |-> filtered_from[matched_from[k]]]
        IN  /\ { origin[k] : k \in 1..Len(origin) } = Eligible
            /\ \A k, l \in 1..Len(origin) : k < l => origin[k] < origin[l]
            /\ \A k \in 1..Len(origin) :
                  matched_instances[k]["Server Name"] = requirements[origin[k]]["Server Name"]

\* two rows went in, the first was left out and the second has its record
C6_Witness ==
    /\ pc = "done"
    /\ Len(requirements) = 2
    /\ Len(matched_instances) = 1
    /\ filtered_from[matched_from[1]] = 2

\* C7 (as claimed), for the variant whose records have CPU and RAM fields: every record
\* carries the requirement's parsed CPU and RAM under CPU and RAM, besides Server Name,
\* IP Address, Storage and Database unchanged.
C7_CarriesRequirementCpuRam ==
    \A k \in 1..Len(matched_instances) :
        LET rec == matched_instances[k]
        IN  variant = "full" =>
            /\ rec["Server Name"] = RowOf(k)["Server Name"]
            /\ rec["IP Address"] = RowOf(k)["IP Address"]
            /\ rec["CPU"] = ReqOf(k)["CPU"]
            /\ rec["RAM"] = ReqOf(k)["RAM"]
            /\ rec["Storage"] = RowOf(k)["Storage"]
            /\ rec["Database"] = RowOf(k)["Database"]

\* C7 (amended): every record carries the row's Server Name and IP Address unchanged and
\* the identifier, vCPU count and memory of one catalog entry that satisfies the
\* requirement.  In the full variant it also carries Storage and Database unchanged and
\* holds the instance's vCPUs and memory under the keys CPU and RAM, in place of the
\* requirement's values; in the ec2 variant it holds them under vCPUs and MemoryMiB and
\* has no CPU, RAM, Storage or Database key.
C7_CarriesInstanceCapacity ==
    \A k \in 1..Len(matched_instances) :
        LET rec == matched_instances[k]
        IN  /\ rec["Server Name"] = RowOf(k)["Server Name"]
            /\ rec["IP Address"] = RowOf(k)["IP Address"]
            /\ \E j \in Qualifying(ReqOf(k)) :
                  ec2_instances[j] = [name |-> rec["InstanceType"], vCPUs |-> RecVCpus(k),
                                      MemoryMiB |-> RecMemory(k)]
            /\ IF variant = "full"
               THEN /\ DOMAIN rec = {"Server Name", "IP Address", "CPU", "RAM",
                                     "InstanceType", "Storage", "Database"}
                    /\ rec["Storage"] = RowOf(k)["Storage"]
                    /\ rec["Database"] = RowOf(k)["Database"]
               ELSE DOMAIN rec = {"Server Name", "IP Address", "InstanceType",
                                  "vCPUs", "MemoryMiB"}

\* a full-variant record whose CPU and RAM both exceed what the requirement asked for
C7_Witness ==
    /\ variant = "full"
    /\ \E k \in 1..Len(matched_instances) :
          /\ matched_instances[k]["CPU"] > ReqOf(k)["CPU"]
          /\ matched_instances[k]["RAM"] > ReqOf(k)["RAM"]

\* the parsed requirement CPU = 2, RAM = 4
IsExampleReq(req) == req["CPU"] = 2 /\ req["RAM"] = 4

\* C10 (as claimed): for CPU = 2, RAM = 4 against t2.small, t3.medium, m5.large the inner
\* loop ends on t3.medium under some iteration order and on m5.large under another.
C10_OrderDependent ==
    IsExampleCatalog(ec2_instances) =>
        LET req == ("CPU" :> 2) @@ ("RAM" :> 4)
            orders == { o \in [1..3 -> { ec2_instances[j] : j \in 1..3 }] :
                          \A a, b \in 1..3 : o[a] = o[b] => a = b }
        IN  /\ \E o \in orders : ScanFrom(None, o, 1, req).InstanceType = "t3.medium"
            /\ \E o \in orders : ScanFrom(None, o, 1, req).InstanceType = "m5.large"

\* C10 (amended): for CPU = 2, RAM = 4 against t2.small, t3.medium, m5.large
\* find_best_match selects t3.medium under every iteration order of the catalog.
C10_AlwaysT3Medium ==
    IsExampleCatalog(ec2_instances) =>
        /\ (pc = "scan" /\ cat_idx > Len(ec2_instances)
                /\ IsExampleReq(filtered_data[req_idx])) =>
              best_match # None /\ best_match.InstanceType = "t3.medium"
        /\ \A k \in 1..Len(matched_instances) :
              IsExampleReq(ReqOf(k)) => matched_instances[k]["InstanceType"] = "t3.medium"

\* the example requirement was matched with m5.large iterated before t3.medium
C10_Witness ==
    /\ IsExampleCatalog(ec2_instances)
    /\ \E a, b \in 1..3 : /\ a < b
                          /\ ec2_instances[a].name = "m5.large"
                          /\ ec2_instances[b].name = "t3.medium"
    /\ \E k \in 1..Len(matched_instances) :
          IsExampleReq(ReqOf(k)) /\ matched_instances[k]["InstanceType"] = "t3.medium"

-----------------------------------------------------------------------------
(* SpecCost: calculate_storage_cost and calculate_database_cost on one Storage cell *)

InitCost ==
    /\ variant = "full"
    /\ pc = "storage_cost"
    /\ storage_str \in { Join(c) : c \in ComponentLists }
    /\ database \in DatabasePool
    /\ storage_cost = None
    /\ database_cost = None
    /\ ec2_instances = <<>>
    /\ requirements = <<>>
    /\ filtered_data = <<>>
    /\ matched_instances = <<>>
    /\ filtered_from = <<>>
    /\ matched_from = <<>>
    /\ req_idx = 1
    /\ cat_idx = 1
    /\ best_match = None
    /\ price_idx = 1
    /\ statusCode = 0
    /\ catalog_failed = FALSE
    /\ price_calls = 0
    /\ unavailable = {}
    /\ store_calls = 0
    /\ store_ok = FALSE
    /\ report = <<>>

otherVars == <<variant, ec2_instances, requirements, filtered_data, matched_instances,
               filtered_from, matched_from, matchVars, handlerVars>>

CalcStorage ==
    /\ pc = "storage_cost"
    /\ \E up \in BOOLEAN : storage_cost' = calculate_storage_cost(storage_str, up)
    /\ pc' = "database_cost"
    /\ UNCHANGED <<otherVars, storage_str, database, database_cost>>

CalcDatabase ==
    /\ pc = "database_cost"
    /\ database_cost' = calculate_database_cost(database, storage_str)
    /\ pc' = "done"
    /\ UNCHANGED <<otherVars, storage_str, database, storage_cost>>

NextCost == CalcStorage \/ CalcDatabase

SpecCost == InitCost /\ [][NextCost]_vars

-----------------------------------------------------------------------------
(* Claims about the cost functions, under SpecCost *)

\* the storage types and their rates in mills per GB, the units and their size in GB
TypeWords == { <<"S", "S", "D">>, <<"H", "D", "D">>, <<"N", "V", "M", "e">> }
TypeRate(t) ==
    CASE upper(t) = <<"S", "S", "D">> -> 80
      [] upper(t) = <<"H", "D", "D">> -> 45
      [] upper(t) = <<"N", "V", "M", "E">> -> 100
UnitWords == { <<"G", "B">>, <<"T", "B">> }
UnitGB(u) == IF upper(u) = <<"T", "B">> THEN 1024 ELSE 1

\* c is <integer><unit><optional whitespace><type>, with the integer ending at j
GrammarSplit(c, j) ==
    /\ j >= 1
    /\ \A x \in 1..j : c[x] \in Digit
    /\ \E u \in UnitWords : LitAtI(c, j + 1, u)
    /\ \E k \in (j + 2)..Len(c) :
          /\ \A x \in (j + 3)..k : c[x] \in Whitespace
          /\ \E t \in TypeWords : LitAtI(c, k + 1, t) /\ k + Len(t) = Len(c)

\* the cost in mills of a component that matches the grammar, 0 for any other
GrammarMills(item) ==
    LET c == strip(item)
        js == { j \in 1..Len(c) : GrammarSplit(c, j) }
    IN  IF js = {} THEN 0
        ELSE LET j == Max(js)
                 t == CHOOSE t \in TypeWords : LitAtI(c, Len(c) - Len(t) + 1, t)
             IN  int(SubSeq(c, 1, j)) * UnitGB(SubSeq(c, j + 1, j + 2)) * TypeRate(t)

\* the digit runs of c that a unit follows at once, as <<first, last>>
SizeOccurrences(c) ==
    { ij \in (1..Len(c)) \X (1..Len(c)) :
        /\ ij[1] <= ij[2]
        /\ \A x \in ij[1]..ij[2] : c[x] \in Digit
        /\ ij[1] = 1 \/ c[ij[1] - 1] \notin Digit
        /\ \E u \in UnitWords : LitAtI(c, ij[2] + 1, u) }

\* the size in GB of the first <digits><unit> occurrence of c, 0 when there is none
FirstSizeGB(c) ==
    IF SizeOccurrences(c) = {} THEN 0
    ELSE LET ij == CHOOSE a \in SizeOccurrences(c) : \A b \in SizeOccurrences(c) : a[1] <= b[1]
         IN  int(SubSeq(c, ij[1], ij[2])) * UnitGB(SubSeq(c, ij[2] + 1, ij[2] + 2))

\* the positions of c and type words found there
TypeOccurrences(c) ==
    { it \in (1..Len(c)) \X TypeWords : LitAtI(c, it[1], it[2]) }

\* the cost in mills of a component holding a size occurrence and a type word anywhere:
\* its first size times the rate of its first type word; 0 for any other
AnywhereMills(c) ==
    IF SizeOccurrences(c) = {} \/ TypeOccurrences(c) = {} THEN 0
    ELSE LET it == CHOOSE a \in TypeOccurrences(c) : \A b \in TypeOccurrences(c) : a[1] <= b[1]
         IN  FirstSizeGB(c) * TypeRate(it[2])

RECURSIVE SumSeq(_)
SumSeq(nums) == IF nums = <<>> THEN 0 ELSE Head(nums) + SumSeq(Tail(nums))

SumOver(items, F(_)) == SumSeq([i \in 1..Len(items) |-> F(items[i])])

\* cents is mills rounded to 2 decimals (either way on an exact half cent)
RoundedFrom(cents, mills) ==
    /\ cents.type = "float"
    /\ 10 * cents.cents - mills <= 5
    /\ mills - 10 * cents.cents <= 5

\* C8 (as claimed): the storage cost is, rounded to 2 decimals, the sum of size-in-GB times
\* rate over the components that match <integer><unit><optional-whitespace><type>; any
\* other component contributes nothing.
C8_GrammarComponentsOnly ==
    storage_cost # None =>
        RoundedFrom(storage_cost, SumOver(split(storage_str, "+"), GrammarMills))

\* C8 (amended): the storage cost is, rounded to 2 decimals, the sum over the
\* '+'-separated components that hold somewhere a '<digits><unit>' occurrence (GB or TB)
\* and somewhere a type word (SSD, HDD, NVMe), both case-insensitive and in either order,
\* of the first such size in GB (1 TB = 1024 GB) times the rate of the first such type
\* (SSD 0.08, HDD 0.045, NVMe 0.10); any other component contributes nothing, the empty
\* descriptor costs 0.00 and '500GB SSD + 1TB HDD' costs 86.08.
C8_SizeAndTypeAnywhere ==
    storage_cost # None =>
        /\ RoundedFrom(storage_cost, SumOver(split(storage_str, "+"), AnywhereMills))
        /\ storage_str = <<>> => storage_cost = Float(0)
        /\ storage_str = <<"5", "0", "0", "G", "B", " ", "S", "S", "D", " ", "+", " ", "1", "T", "B", " ", "H", "D", "D">>
              => storage_cost = Float(8608)

\* 'SSD 200GB + 250 GB SSD' was priced: the first component is charged, the second skipped
C8_Witness ==
    /\ storage_str = <<"S", "S", "D", " ", "2", "0", "0", "G", "B", " ", "+", " ", "2", "5", "0", " ", "G", "B", " ", "S", "S", "D">>
    /\ storage_cost = Float(1600)

KnownKinds == { "MySQL", "PostgreSQL", "Microsoft SQL Server", "Oracle Database", "Redis" }
KindRate(k) ==
    CASE k = "MySQL" -> 10 [] k = "PostgreSQL" -> 10 [] k = "Microsoft SQL Server" -> 20
      [] k = "Oracle Database" -> 30 [] k = "Redis" -> 15

\* C9: the database cost is 0.00 when the kind is 'None' or not one of the five known
\* kinds; otherwise it is the kind's rate times the size in GB of the first size/unit
\* occurrence of the whole descriptor (0.00 when there is none), so that appending a
\* component to a descriptor that has a size leaves the database cost as it is, while an
\* appended component that is charged raises the storage cost.
C9_DatabaseCostFirstSizeOnly ==
    pc = "done" =>
        /\ database \notin KnownKinds => database_cost = Float(0)
        /\ database \in KnownKinds =>
              database_cost = Float(KindRate(database) * FirstSizeGB(storage_str))
        /\ \A e \in ComponentPool :
              LET longer == storage_str \o <<" ", "+", " ">> \o e
              IN  /\ FirstSizeGB(storage_str) > 0 =>
                        calculate_database_cost(database, longer) = database_cost
                  /\ AnywhereMills(e) > 0 =>
                        \A up \in BOOLEAN :
                            calculate_storage_cost(longer, up).cents > storage_cost.cents

\* MySQL on '500GB SSD + 1TB HDD': the database is charged for 500 GB, the storage for both
C9_Witness ==
    /\ pc = "done"
    /\ database = "MySQL"
    /\ storage_str = <<"5", "0", "0", "G", "B", " ", "S", "S", "D", " ", "+", " ", "1", "T", "B", " ", "H", "D", "D">>
    /\ database_cost = Float(5000)
    /\ storage_cost = Float(8608)

-----------------------------------------------------------------------------
(* lambda_handler and the collaborators it calls *)

\* what s3_client.get_object / pd.read_excel do: the rows, or an exception
S3Responses ==
    { [raises |-> FALSE, rows |-> l] : l \in RequirementLists } \cup { [raises |-> TRUE] }

\* an exception inside the try block gives []
fetch_requirements_from_s3(response) ==
    IF response.raises THEN <<>> ELSE response.rows

\* what get_instance_price returns: None (an empty PriceList, or an exception inside the
\* try block), or the hourly price, here in 1/10000 USD (0.05 and 0.0416 USD per hour)
PriceQuotes == { None, [usd_e4 |-> 500], [usd_e4 |-> 416] }

\* round(hourly_price * 24 * 30, 2), in cents; price * 720 / 100 is never a half cent
MonthlyCost(hourly_price) == Float((hourly_price.usd_e4 * 24 * 30 + 50) \div 100)

\* the early return never taken
NoRequirements_Never(reqs) == FALSE

\* `if not requirements`
NoRequirements(reqs) == reqs = <<>>

\* a raised TypeError
TypeError == [raises |-> "TypeError"]

\* a + b: adding a float to a str raises TypeError
PyAdd(a, b) ==
    IF a = TypeError \/ b = TypeError THEN TypeError
    ELSE IF a.type = "float" /\ b.type = "float" THEN Float(a.cents + b.cents)
    ELSE TypeError

\* the body of the pricing loop for one record; raised is TRUE when it ends in TypeError
PriceRecord(v, instance, hourly_price, up) ==
    LET monthly == IF hourly_price # None THEN MonthlyCost(hourly_price)
                   ELSE Str("Price Not Available")
        r1 == instance @@ ("Monthly Cost" :> monthly)
    IN  IF v = "ec2" THEN [rec |-> r1, raised |-> FALSE]
        ELSE LET storage == calculate_storage_cost(instance["Storage"], up)
                 db == calculate_database_cost(instance["Database"], instance["Storage"])
                 r3 == r1 @@ ("Monthly Storage Cost" :> storage)
                          @@ ("Monthly Database Cost" :> db)
                 total == PyAdd(PyAdd(monthly, storage), db)
             IN  IF total = TypeError THEN [rec |-> r3, raised |-> TRUE]
                 ELSE [rec |-> r3 @@ ("Total Pricing" :> total), raised |-> FALSE]

Init ==
    /\ variant \in {"full", "ec2"}
    /\ pc = "fetch_catalog"
    /\ ec2_instances = <<>>
    /\ requirements = <<>>
    /\ filtered_data = <<>>
    /\ matched_instances = <<>>
    /\ filtered_from = <<>>
    /\ matched_from = <<>>
    /\ req_idx = 1
    /\ cat_idx = 1
    /\ best_match = None
    /\ price_idx = 1
    /\ statusCode = 0
    /\ catalog_failed = FALSE
    /\ price_calls = 0
    /\ unavailable = {}
    /\ store_calls = 0
    /\ store_ok = FALSE
    /\ report = <<>>
    /\ storage_str = <<>>
    /\ database = "None"
    /\ storage_cost = None
    /\ database_cost = None

\* ec2_instances = fetch_ec2_instance_types()
FetchCatalog ==
    /\ pc = "fetch_catalog"
    /\ \E response \in CatalogResponses :
          /\ ec2_instances' = fetch_ec2_instance_types(response)
          /\ catalog_failed' = response.raises
    /\ pc' = "fetch_requirements"
    /\ UNCHANGED <<variant, requirements, filtered_data, matched_instances, filtered_from,
                   matched_from, matchVars, price_idx, statusCode, price_calls,
                   unavailable, store_calls, store_ok, report, costVars>>

\* requirements = fetch_requirements_from_s3(); return 500 when there are none
FetchRequirements ==
    /\ pc = "fetch_requirements"
    /\ \E response \in S3Responses :
          /\ requirements' = fetch_requirements_from_s3(response)
          /\ IF NoRequirements(requirements')
             THEN statusCode' = 500 /\ pc' = "done"
             ELSE statusCode' = statusCode /\ pc' = "process"
    /\ UNCHANGED <<variant, ec2_instances, filtered_data, matched_instances,
                   filtered_from, matched_from, matchVars, price_idx, catalog_failed,
                   price_calls, unavailable, store_calls, store_ok, report, costVars>>

\* filtered_data = extract_cpu_ram(...); matched_instances = find_best_match(...)
Process ==
    /\ pc = "process"
    /\ LET f == extract_cpu_ram(variant, requirements)
           m == find_best_match(variant, f.out, ec2_instances)
       IN  /\ filtered_data' = f.out
           /\ filtered_from' = f.from
           /\ matched_instances' = m.out
           /\ matched_from' = m.from
    /\ price_idx' = 1
    /\ pc' = "price"
    /\ UNCHANGED <<variant, ec2_instances, requirements, matchVars, statusCode,
                   catalog_failed, price_calls, unavailable, store_calls, store_ok,
                   report, costVars>>

\* one iteration of `for instance in matched_instances`; a TypeError lands in the
\* handler's `except Exception`, which returns 500
PriceOne ==
    /\ pc = "price"
    /\ price_idx <= Len(matched_instances)
    /\ \E hourly_price \in PriceQuotes, up \in BOOLEAN :
          LET r == PriceRecord(variant, matched_instances[price_idx], hourly_price, up)
          IN  /\ matched_instances' = [matched_instances EXCEPT ![price_idx] = r.rec]
              /\ unavailable' = IF hourly_price = None
                                THEN unavailable \cup {price_idx} ELSE unavailable
              /\ IF r.raised
                 THEN statusCode' = 500 /\ pc' = "done" /\ price_idx' = price_idx
                 ELSE statusCode' = statusCode /\ pc' = pc /\ price_idx' = price_idx + 1
    /\ price_calls' = price_calls + 1
    /\ UNCHANGED <<variant, ec2_instances, requirements, filtered_data, filtered_from,
                   matched_from, matchVars, catalog_failed, store_calls, store_ok,
                   report, costVars>>

\* success = store_results_in_s3_csv(matched_instances); 500 when it failed, else 200
Store ==
    /\ pc = "price"
    /\ price_idx > Len(matched_instances)
    /\ \E success \in BOOLEAN :
          /\ store_ok' = success
          /\ report' = IF success THEN matched_instances ELSE report
          /\ statusCode' = IF success THEN 200 ELSE 500
    /\ store_calls' = store_calls + 1
    /\ pc' = "done"
    /\ UNCHANGED <<variant, ec2_instances, requirements, filtered_data, matched_instances,
                   filtered_from, matched_from, matchVars, price_idx, catalog_failed,
                   price_calls, unavailable, costVars>>

Next == FetchCatalog \/ FetchRequirements \/ Process \/ PriceOne \/ Store

Spec == Init /\ [][Next]_vars

-----------------------------------------------------------------------------
(* Claims about lambda_handler, under Spec *)

\* C3 (as claimed): a price lookup that returns None does not block the pipeline: the
\* record's Monthly Cost is the sentinel, its Total Pricing is storage cost + database
\* cost, the remaining records are still priced, and the handler goes on to emit the
\* report and returns 200 when the emission succeeds.
C3_UnavailablePriceNotFatal ==
    /\ \A k \in unavailable :
          LET rec == matched_instances[k]
          IN  /\ rec["Monthly Cost"] = Str("Price Not Available")
              /\ variant = "full" =>
                    /\ "Total Pricing" \in DOMAIN rec
                    /\ rec["Total Pricing"] =
                          Float(rec["Monthly Storage Cost"].cents
                                  + rec["Monthly Database Cost"].cents)
    /\ (unavailable # {} /\ pc = "done") =>
          /\ price_calls = Len(matched_instances)
          /\ store_calls = 1
          /\ store_ok => statusCode = 200 /\ report = matched_instances

\* C4 (as claimed): when describe_instance_types raises, the invocation reports failure:
\* it never returns 200 and no report emission succeeds.
C4_CatalogFailureFatal ==
    catalog_failed =>
        /\ statusCode # 200
        /\ ~store_ok

\* C5: the handler returns 200 only if the requirements were not empty and the emission
\* reported success; with no requirements it returns 500 and calls neither the price
\* lookup nor the emission; when the emission reports failure it returns 500.
C5_StatusCode ==
    /\ statusCode \in {0, 200, 500}
    /\ (pc = "done") = (statusCode # 0)
    /\ statusCode = 200 => requirements # <<>> /\ store_calls = 1 /\ store_ok
    /\ requirements = <<>> => price_calls = 0 /\ store_calls = 0
    /\ (pc = "done" /\ requirements = <<>>) => statusCode = 500
    /\ (store_calls = 1 /\ ~store_ok) => statusCode = 500 /\ report = <<>>

\* the handler priced two records, the emission failed and it returned 500
C5_Witness ==
    /\ pc = "done"
    /\ price_calls = 2
    /\ store_calls = 1
    /\ ~store_ok
    /\ statusCode = 500

=============================================================================
